---- MODULE Spec2Model ----
(***************************************************************************)
(* Model of the OSF project exporter (src/src/osfexport/exporter.py and     *)
(* src/src/osfexport/formatter.py).                                        *)
(*                                                                         *)
(*   get_project_data   the breadth-first materializer over a work queue   *)
(*   explore_file_tree  the recursive, paginated walk of a folder tree      *)
(*   explore_wikis      the paginated read of the wiki index                *)
(*   write_pdf          the depth-first rendering of a tree of records      *)
(*                                                                         *)
(* The remote API is the environment: the answer to a fetch is chosen when  *)
(* the fetch is issued and is recorded, so that the properties can speak    *)
(* about what the server returned.  The functions are modelled on their     *)
(* dryrun=False path; the mock reader only replaces the fetch.              *)
(***************************************************************************)
EXTENDS Integers, Sequences, FiniteSets, TLC

\* ------------------------------------------------------------------ bounds
MaxSeeds == 3
MaxQueue == 5
MaxPages == 2
MaxLinks == 3
MaxEntries == 2
MaxFiles == 2
MaxWikiPages == 3
MaxWikiItems == 2
MaxAbsent == 2
MaxChildren == 2
MaxDepth == 3
MaxWikis == 2
MaxCalls == 2
MaxUrlLen == 6

\* The node identifiers the server knows.
Ids == {"x", "y", "a"}

\* The wiki names the server knows.
WikiNames == {"home", "helloworld"}

\* Python's None, and the value of an empty project_id argument.
None == <<"None">>
NoProject == ""

VARIABLES
    \* ---- get_project_data
    pc,              \* position in get_project_data
    project_id,      \* the argument: NoProject or the id of one node
    slash,           \* environment: API hrefs end with a "/"
    listing,         \* environment: the pages of /users/me/nodes/ as served
    nodes,           \* nodes['data'], the work queue
    idx,             \* enumerate() index of the next queue entry (0-based)
    projects,        \* the record list
    root_nodes,      \* the root index list
    added_node_ids,  \* ids already materialized
    failed,          \* the exception met in a fetch, if any (see Failure)
    \* ---- explore_file_tree
    fpc,             \* "off", "run", "done" (returned) or "raised"
    stack,           \* the call frames of explore_file_tree, innermost last
    links,           \* environment: number of links handed out so far
    owner,           \* environment: link -> path of the folder it lists
    folderPages,     \* environment: link -> folder page served for it
    filePages,       \* environment: link -> file page served for it
    \* ---- explore_wikis
    wpc,             \* "off", "start", "loop", "done", "keyerror", "raised"
    wikis,           \* the link of the index page held in `wikis`
    wiki_content,    \* the dict built, as its items in insertion order
    wikiPages,       \* environment: link -> wiki index page served for it
    \* ---- write_pdf
    rpc,             \* "off", "idle", "render", or how write_pdf was left:
                     \* "raised", "keyerror", "recursionerror"
    records,         \* the projects list the caller holds and passes
    known,           \* environment: the records whose children were read
    calls,           \* number of write_pdf calls made so far
    root_idx,        \* the argument of the current (or last) call
    rstack,          \* the call frames of explore_project_tree
    pdf,             \* the PDF object under construction
    outputs,         \* the documents written by pdf.output, in order
    \* ---- extract_project_id and the export command
    cpc,             \* "off"; "pure", "applied" (the function alone);
                     \* "start", "call", "generate", "returned", "escaped"
    url_arg,         \* the url argument, as its list of tokens
    cli_project_id,  \* the identifier extracted
    requests,        \* number of calls of get_project_data (network use)
    echoed,          \* the lines printed by click.echo, in order
    files_written,   \* number of files written by generate_pdf
    exception        \* the exception raised inside the command, if any

nodeVars == <<pc, project_id, slash, listing, nodes, idx, projects,
              root_nodes, added_node_ids, failed>>

fileVars == <<fpc, stack, links, owner, folderPages, filePages>>

wikiVars == <<wpc, wikis, wiki_content, wikiPages>>

renderVars == <<rpc, records, known, calls, root_idx, rstack, pdf,
                outputs>>

cliVars == <<cpc, url_arg, cli_project_id, requests, echoed,
            files_written, exception>>

vars == <<nodeVars, fileVars, wikiVars, renderVars, cliVars>>

\* ----------------------------------------------------------------- helpers
SeqsUpTo(S, n) == UNION {[1..k -> S] : k \in 0..n}

RECURSIVE Concat(_)
Concat(ss) == IF ss = <<>> THEN <<>> ELSE Head(ss) \o Concat(Tail(ss))

Range(s) == {s[i] : i \in 1..Len(s)}

\* The map f with the entries of g added (g wins on a common key).
Extend(f, g) ==
    [x \in DOMAIN f \cup DOMAIN g |-> IF x \in DOMAIN g THEN g[x] ELSE f[x]]

\* str.split('/') of an API href, given as its list of segments: the href
\* ".../nodes/<id>/" splits into (..., "nodes", <id>, "").
Href(id) == IF slash THEN <<"v2", "nodes", id, "">> ELSE <<"v2", "nodes", id>>

\* Python's s.split('/')[-1] on an href.
LastSegment(segments) == segments[Len(segments)]

\* project['attributes']['title'] and project['links']['html'] of a node.
Title(id) == <<"title", id>>
Url(id) == <<"url", id>>

\* The relations fetched by link traversal, in the order of RELATION_KEYS
\* (lines 516-522), and all the fetches of one pass of the loop body, in
\* program order (lines 490, 512, 523-533, 577, 593).
RELATION_KEYS == <<"affiliated_institutions", "identifiers", "license",
                   "subjects", "contributors">>

FETCHES == <<"custom_metadata", "files">> \o RELATION_KEYS
              \o <<"wikis", "children">>

RelationKeySet == Range(RELATION_KEYS)

\* No fetch, no exception.
NoFetch == "none"

\* The sets of relation links a node's relationships can lack.
AbsentChoices ==
    {S \in SUBSET RelationKeySet : Cardinality(S) <= MaxAbsent}

\* A node descriptor as the API returns it: its id, the href of its parent
\* relationship (None when relationships.parent has no links) and the
\* relation keys for which relationships has no link.
Descriptor(id, parentHref, absent) ==
    [id |-> id, parent |-> parentHref, absent |-> absent]

\* A descriptor of the root-node listing (server-side filter parent='').
RootDescriptor(id) == Descriptor(id, None, {})

\* A descriptor returned by the children endpoint of node p.
ChildDescriptor(id, p) == Descriptor(id, Href(p), {})

\* ------------------------------------------------------ get_project_data
\* if project['id'] in added_node_ids: continue
IsDuplicate_never(project) == FALSE

IsDuplicate_seedsOnly(project) ==
    project.id \in added_node_ids /\ project.parent = None

IsDuplicate_childrenOnly(project) ==
    project.id \in added_node_ids /\ project.parent # None

IsDuplicate(project) == project.id \in added_node_ids

\* for child in children['data']: nodes['data'].append(child)
Enqueue_dropped(queue, children) == queue

Enqueue_reversed(queue, children) ==
    queue \o [i \in 1..Len(children) |-> children[Len(children) + 1 - i]]

Enqueue(queue, children) == queue \o children

\* project_data['parent'] for a descriptor
ParentField(project) ==
    IF project.parent # None
    THEN <<"str", LastSegment(project.parent)>>
    ELSE None

\* root_nodes after the parent step of the node at queue position i
RootsAfter(roots, project, i) ==
    IF project.parent # None THEN roots ELSE Append(roots, i)

\* Lines 527-538, the try statement around the fetch of relation key: what
\* happens to an exception of kind exc raised inside it.  Only KeyError is
\* caught; for subjects it is raised again, for the other keys the
\* placeholder {'data': None} is used.
Except_subjectsOptional(key, exc) ==
    IF exc = "KeyError" THEN "placeholder" ELSE "propagate"

Except_anyException(key, exc) ==
    IF key = "subjects" THEN "raise" ELSE "placeholder"

Except(key, exc) ==
    IF exc = "KeyError"
    THEN IF key = "subjects" THEN "raise" ELSE "placeholder"
    ELSE "propagate"

\* Lines 542-575 on the placeholder: values stays [], joined to '' for
\* every key but contributors.
EmptyValue(key) == IF key = "contributors" THEN <<"list">> ELSE <<"str", "">>

\* Lines 542-575 on the data fetched for relation key of node id.
FetchedValue(key, id) ==
    IF key = "contributors" THEN <<"list", id>> ELSE <<"str", id>>

\* The fetches of one pass of the loop body from the n-th on, for the
\* descriptor project, when the server fails the fetch fault (NoFetch: no
\* failure).  acc holds how the pass ends (status "ok", "KeyError" or
\* "HTTPError", and the fetch it ended at), the relation values so far, and
\* the failed fetch in case the program caught its exception.
RECURSIVE Fetching(_, _, _, _)
Fetching(project, fault, n, acc) ==
    IF n > Len(FETCHES) THEN acc
    ELSE LET f == FETCHES[n]
             isRelation == f \in RelationKeySet
             exc == IF isRelation /\ f \in project.absent THEN "KeyError"
                    ELSE IF fault = f THEN "HTTPError"
                    ELSE NoFetch
             caught == IF exc = "HTTPError" THEN f ELSE acc.swallowed
         IN  IF exc = NoFetch
             THEN Fetching(project, fault, n + 1,
                           IF isRelation
                           THEN [acc EXCEPT !.relations[f] =
                                               FetchedValue(f, project.id)]
                           ELSE acc)
             ELSE IF ~isRelation \/ Except(f, exc) = "propagate"
             THEN [acc EXCEPT !.status = exc, !.at = f]
             ELSE IF Except(f, exc) = "raise"
             THEN [acc EXCEPT !.status = "KeyError", !.at = f,
                              !.swallowed = caught]
             ELSE Fetching(project, fault, n + 1,
                           [acc EXCEPT !.relations[f] = EmptyValue(f),
                                       !.swallowed = caught])

Iteration(project, fault) ==
    Fetching(project, fault, 1,
             [status |-> "ok", at |-> NoFetch, swallowed |-> NoFetch,
              relations |-> [k \in RelationKeySet |-> EmptyValue(k)]])

\* The fetches of a pass for project whose HTTPError the try statement
\* would catch.
Caught(project) ==
    {k \in RelationKeySet \ project.absent :
        Except(k, "HTTPError") # "propagate"}

\* The ways one pass of the loop body for project can end when no
\* exception leaves it uncaught.
Outcomes(project) ==
    {Iteration(project, fault) : fault \in {NoFetch} \cup Caught(project)}

\* The ways one pass can end with an HTTPError of one of its fetches.
Failures(project) ==
    {pass \in {Iteration(project, fault) : fault \in Range(FETCHES)} :
        pass.status = "HTTPError"}

\* An exception of kind exc met in the fetch `at` while the descriptor
\* project was materialized.
Failure(exc, at, project) == [exc |-> exc, at |-> at, project |-> project]

NoFailure == Failure(NoFetch, NoFetch, Descriptor(NoProject, None, {}))

\* failed after a pass of the loop body for project: an HTTPError that the
\* try statement caught is recorded.
FailedAfter(pass, project) ==
    IF pass.swallowed # NoFetch
    THEN Failure("HTTPError", pass.swallowed, project)
    ELSE failed

\* An exception leaves get_project_data: its locals are gone and nothing
\* is returned.
Unwind ==
    /\ nodes' = <<>>
    /\ idx' = 0
    /\ projects' = <<>>
    /\ root_nodes' = <<>>
    /\ added_node_ids' = {}

\* The state of a function that is not called in a run.
NodesOff ==
    /\ pc = "off"
    /\ project_id = NoProject
    /\ slash = TRUE
    /\ listing = <<>>
    /\ nodes = <<>>
    /\ idx = 0
    /\ projects = <<>>
    /\ root_nodes = <<>>
    /\ added_node_ids = {}
    /\ failed = NoFailure

FilesOff ==
    /\ fpc = "off"
    /\ stack = <<>>
    /\ links = 0
    /\ owner = <<>>
    /\ folderPages = <<>>
    /\ filePages = <<>>

WikisOff ==
    /\ wpc = "off"
    /\ wikis = 0
    /\ wiki_content = <<>>
    /\ wikiPages = <<>>

InitNodes ==
    /\ pc = "start"
    /\ project_id \in {NoProject} \cup Ids
    /\ slash \in BOOLEAN
    /\ listing = <<>>
    /\ nodes = <<>>
    /\ idx = 0
    /\ projects = <<>>
    /\ root_nodes = <<>>
    /\ added_node_ids = {}
    /\ failed = NoFailure

\* The ways to cut a list into at most n pages (from the second page on,
\* no page is empty).
RECURSIVE Pagings(_, _, _)
Pagings(s, n, first) ==
    (IF first \/ s # <<>> THEN {<<s>>} ELSE {})
    \cup (IF n > 1
          THEN UNION {{<<SubSeq(s, 1, k)>> \o rest :
                          rest \in Pagings(SubSeq(s, k + 1, Len(s)), n - 1,
                                           FALSE)} :
                      k \in (IF first THEN 0 ELSE 1)..(Len(s) - 1)}
          ELSE {})

\* The root-node listing the server can return: up to MaxSeeds nodes on
\* up to MaxPages pages.
ListingPages ==
    UNION {Pagings(s, MaxPages, TRUE) : s \in SeqsUpTo(Ids, MaxSeeds)}

\* Lines 423-445, a single project: nodes = {'data': [json['data']]}
GetSingleNode ==
    /\ pc = "start"
    /\ project_id # NoProject
    /\ \E parentHref \in {None} \cup {Href(p) : p \in Ids \ {project_id}},
          absent \in AbsentChoices :
          nodes' = <<Descriptor(project_id, parentHref, absent)>>
    /\ pc' = "loop"
    /\ UNCHANGED <<project_id, slash, listing, idx, projects, root_nodes,
                   added_node_ids, failed, fileVars, wikiVars, renderVars, cliVars>>

\* Lines 423-445, no project given: nodes = json.loads(result.read()), the
\* body of the one response to /users/me/nodes/.
GetUserNodes ==
    /\ pc = "start"
    /\ project_id = NoProject
    /\ \E pages \in ListingPages :
          /\ listing' = pages
          /\ nodes' = [i \in 1..Len(pages[1]) |-> RootDescriptor(pages[1][i])]
    /\ pc' = "loop"
    /\ UNCHANGED <<project_id, slash, idx, projects, root_nodes,
                   added_node_ids, failed, fileVars, wikiVars, renderVars, cliVars>>

\* Lines 447-449: a queue entry whose id was already materialized.
SkipDuplicate ==
    /\ pc = "loop"
    /\ idx < Len(nodes)
    /\ IsDuplicate(nodes[idx + 1])
    /\ idx' = idx + 1
    /\ UNCHANGED <<pc, project_id, slash, listing, nodes, projects,
                   root_nodes, added_node_ids, failed, fileVars, wikiVars,
                   renderVars, cliVars>>

\* Lines 450-600: one pass of the loop body for a new id, all its fetches
\* included.  The children response is any list of nodes that still fits
\* the bounded queue.  The files and wikis fields are the results of
\* explore_file_tree and explore_wikis.
MaterializeNode ==
    /\ pc = "loop"
    /\ idx < Len(nodes)
    /\ ~IsDuplicate(nodes[idx + 1])
    /\ LET project == nodes[idx + 1] IN
       \E pass \in Outcomes(project) :
          /\ pass.status = "ok"
          /\ failed' = FailedAfter(pass, project)
          /\ \E kids \in SeqsUpTo(Ids, MaxQueue - Len(nodes)) :
                LET children ==
                        [i \in 1..Len(kids) |->
                            ChildDescriptor(kids[i], project.id)]
                    project_data ==
                        [id |-> project.id,
                         title |-> Title(project.id),
                         url |-> Url(project.id),
                         relations |-> pass.relations,
                         parent |-> ParentField(project),
                         children |-> kids]
                IN  /\ added_node_ids' = added_node_ids \cup {project.id}
                    /\ root_nodes' = RootsAfter(root_nodes, project, idx)
                    /\ nodes' = Enqueue(nodes, children)
                    /\ projects' = Append(projects, project_data)
    /\ idx' = idx + 1
    /\ UNCHANGED <<pc, project_id, slash, listing, fileVars, wikiVars,
                   renderVars, cliVars>>

\* Lines 535-537: the link of the subjects relation is missing, KeyError is
\* raised out of get_project_data.
RelationKeyError ==
    /\ pc = "loop"
    /\ idx < Len(nodes)
    /\ ~IsDuplicate(nodes[idx + 1])
    /\ \E pass \in Outcomes(nodes[idx + 1]) :
          /\ pass.status = "KeyError"
          /\ failed' = Failure("KeyError", pass.at, nodes[idx + 1])
    /\ pc' = "keyerror"
    /\ Unwind
    /\ UNCHANGED <<project_id, slash, listing, fileVars, wikiVars, renderVars, cliVars>>

\* Line 602: the queue is exhausted.
ReturnProjects ==
    /\ pc = "loop"
    /\ idx = Len(nodes)
    /\ pc' = "done"
    /\ UNCHANGED <<project_id, slash, listing, nodes, idx, projects,
                   root_nodes, added_node_ids, failed, fileVars, wikiVars,
                   renderVars, cliVars>>

\* urlopen raises (lines 247-258) for the first request or for a fetch of
\* the loop body, and the exception leaves get_project_data.
FetchRaises ==
    /\ IF pc = "start"
       THEN failed' = Failure("HTTPError", "nodes",
                              Descriptor(project_id, None, {}))
       ELSE /\ pc = "loop"
            /\ idx < Len(nodes)
            /\ ~IsDuplicate(nodes[idx + 1])
            /\ \E pass \in Failures(nodes[idx + 1]) :
                  /\ failed' = Failure("HTTPError", pass.at, nodes[idx + 1])
    /\ pc' = "raised"
    /\ Unwind
    /\ UNCHANGED <<project_id, slash, listing, fileVars, wikiVars, renderVars, cliVars>>

NextNodes ==
    \/ GetSingleNode
    \/ GetUserNodes
    \/ SkipDuplicate
    \/ MaterializeNode
    \/ RelationKeyError
    \/ ReturnProjects
    \/ FetchRaises

\* --------------------------------------------------------- explore_wikis
\* A wiki index page: the names of wikis['data'] (hasData is FALSE when the
\* page has no 'data' key) and wikis['links']['next'] (0 for None).
WikiPage(hasData, names, next) ==
    [hasData |-> hasData, names |-> names, next |-> next]

\* The cursors a page can name: none, a page served before (an upstream
\* that repeats a cursor) or the next unseen page.
WikiCursors == {0} \cup {l \in 1..(Len(wikiPages) + 2) : l <= MaxWikiPages}

\* The pages the server can answer with.
WikiPageChoices ==
    {WikiPage(TRUE, names, next) :
        names \in SeqsUpTo(WikiNames, MaxWikiItems), next \in WikiCursors}
    \cup {WikiPage(FALSE, <<>>, next) : next \in WikiCursors}

\* The content behind the download link of entry k of index page l.
WikiDownload(l, k) == <<"content", l, k>>

\* wiki_content[name] = content
DictSet_keepFirst(dict, name, content) ==
    IF \E p \in 1..Len(dict) : dict[p].name = name
    THEN dict
    ELSE Append(dict, [name |-> name, content |-> content])

DictSet(dict, name, content) ==
    IF \E p \in 1..Len(dict) : dict[p].name = name
    THEN [p \in 1..Len(dict) |->
             IF dict[p].name = name
             THEN [name |-> name, content |-> content]
             ELSE dict[p]]
    ELSE Append(dict, [name |-> name, content |-> content])

\* The for loop of lines 370-378 over the entries k.. of index page l.
RECURSIVE StoreWikis(_, _, _)
StoreWikis(dict, l, k) ==
    IF k > Len(wikiPages[l].names) THEN dict
    ELSE StoreWikis(DictSet(dict, wikiPages[l].names[k], WikiDownload(l, k)),
                    l, k + 1)

\* Lines 382-384: the loop ends when links.next is falsy.
IsLastPage_seenBefore(link) == link = 0 \/ link \in DOMAIN wikiPages

IsLastPage(link) == link = 0

InitWikis ==
    /\ wpc = "start"
    /\ wikis = 0
    /\ wiki_content = <<>>
    /\ wikiPages = <<>>

\* Lines 360-367: the first index page is read.
ReadFirstWikiPage ==
    /\ wpc = "start"
    /\ \E page \in WikiPageChoices : wikiPages' = <<page>>
    /\ wikis' = 1
    /\ wpc' = "loop"
    /\ UNCHANGED <<wiki_content, nodeVars, fileVars, renderVars, cliVars>>

\* Lines 369-391, one pass of the while loop over a page with a 'data' key:
\* the entries are stored, then the next page is read unless this is the
\* last one.
ProcessWikiPage ==
    /\ wpc = "loop"
    /\ wikiPages[wikis].hasData
    /\ wiki_content' = StoreWikis(wiki_content, wikis, 1)
    /\ LET link == wikiPages[wikis].next IN
       IF IsLastPage(link)
       THEN /\ wpc' = "done"
            /\ UNCHANGED <<wikis, wikiPages>>
       ELSE /\ wpc' = "loop"
            /\ wikis' = link
            /\ IF link \in DOMAIN wikiPages
               THEN UNCHANGED wikiPages
               ELSE \E page \in WikiPageChoices :
                        wikiPages' = Append(wikiPages, page)
    /\ UNCHANGED <<nodeVars, fileVars, renderVars, cliVars>>

\* Line 370 on a page without a 'data' key: wikis['data'] raises KeyError,
\* which explore_wikis does not catch.
WikiPageKeyError ==
    /\ wpc = "loop"
    /\ ~wikiPages[wikis].hasData
    /\ wpc' = "keyerror"
    /\ UNCHANGED <<wikis, wiki_content, wikiPages, nodeVars, fileVars,
                   renderVars, cliVars>>

\* urlopen raises for an index page or a content download.
WikiFetchRaises ==
    /\ \/ wpc = "start"
       \/ /\ wpc = "loop"
          /\ wikiPages[wikis].hasData
          /\ wikiPages[wikis].names # <<>> \/ wikiPages[wikis].next # 0
    /\ wpc' = "raised"
    /\ UNCHANGED <<wikis, wiki_content, wikiPages, nodeVars, fileVars,
                   renderVars, cliVars>>

NextWikis ==
    \/ ReadFirstWikiPage
    \/ ProcessWikiPage
    \/ WikiPageKeyError
    \/ WikiFetchRaises

\* ----------------------------------------------------- explore_file_tree
\* A page of the folder listing of a link: entry k of folders['data'] is
\* the link of its files relationship, or 0 when the entry has none;
\* hasData is FALSE when the page has no 'data' key; next is
\* folders['links']['next'] (0 for None).
FolderPage(hasData, entries, next) ==
    [hasData |-> hasData, entries |-> entries, next |-> next]

\* A page of the file listing of a link: its number of files and
\* files['links']['next'].
FilePage(hasData, count, next) ==
    [hasData |-> hasData, count |-> count, next |-> next]

\* The tuple appended for file k of the file page of link l: the folder
\* path stands for materialized_path, (l, k) for the file's name.
FileData(l, k) == [dir |-> owner[l], page |-> l, k |-> k]

\* The tuples of one file page, in page order (lines 322-330).
FileItems(l, page) ==
    IF page.hasData THEN [k \in 1..page.count |-> FileData(l, k)] ELSE <<>>

\* The number of TRUE among the first k flags.
RECURSIVE CountTrue(_, _)
CountTrue(flags, k) ==
    IF k = 0 THEN 0
    ELSE CountTrue(flags, k - 1) + (IF flags[k] THEN 1 ELSE 0)

\* The shapes of folder page the server can answer with: which entries
\* have a files relationship, and whether there is a next page.  Every
\* link of the answer is a new one (folders form a tree).
FolderShapes ==
    {sh \in [hasData : BOOLEAN, rels : SeqsUpTo(BOOLEAN, MaxEntries),
             hasNext : BOOLEAN] :
        /\ ~sh.hasData => sh.rels = <<>>
        /\ links + CountTrue(sh.rels, Len(sh.rels))
              + (IF sh.hasNext THEN 1 ELSE 0) <= MaxLinks}

FileShapes ==
    {sh \in [hasData : BOOLEAN, count : 0..MaxFiles, hasNext : BOOLEAN] :
        /\ ~sh.hasData => sh.count = 0
        /\ links + (IF sh.hasNext THEN 1 ELSE 0) <= MaxLinks}

FolderPageOf(sh) ==
    FolderPage(sh.hasData,
               [k \in 1..Len(sh.rels) |->
                   IF sh.rels[k] THEN links + CountTrue(sh.rels, k) ELSE 0],
               IF sh.hasNext
               THEN links + CountTrue(sh.rels, Len(sh.rels)) + 1 ELSE 0)

FilePageOf(sh) ==
    FilePage(sh.hasData, sh.count, IF sh.hasNext THEN links + 1 ELSE 0)

\* The folder paths of the links a folder page at link l introduces: a
\* sub-folder entry is a folder below owner[l], the next page belongs to
\* the same folder.
OwnersOf(l, page) ==
    [n \in (links + 1)..(links + CountTrue([k \in 1..Len(page.entries) |->
                                               page.entries[k] # 0],
                                           Len(page.entries))
                         + (IF page.next # 0 THEN 1 ELSE 0)) |->
        IF n = page.next THEN owner[l] ELSE Append(owner[l], n)]

\* A call frame of explore_file_tree.
Frame(link) ==
    [curr_link |-> link, files_found |-> <<>>, phase |-> "folders",
     folders |-> 0, i |-> 1]

Top == stack[Len(stack)]

SetTop(frame) == [stack EXCEPT ![Len(stack)] = frame]

\* Lines 301-307: the for loop over folders['data'] is over, by exhaustion
\* or by a KeyError (no 'data' key, or an entry without a files
\* relationship), which the try around the whole loop swallows.
FolderLoopOver(frame) ==
    LET page == folderPages[frame.folders] IN
    IF ~page.hasData THEN TRUE
    ELSE IF frame.i > Len(page.entries) THEN TRUE
    ELSE page.entries[frame.i] = 0

\* Line 330: files_found.append(data), for the tuples of one page.
AppendFiles_atFront(found, items) == items \o found

AppendFiles(found, items) == found \o items

\* Lines 333-335: the file loop ends when links.next is None.
IsLastFilePage_always(next) == TRUE

IsLastFilePage(next) == next = 0

InitFiles ==
    /\ fpc = "run"
    /\ stack = <<Frame(1)>>
    /\ links = 1
    /\ owner = <<<<1>>>>
    /\ folderPages = <<>>
    /\ filePages = <<>>

\* Lines 289-298: a page of sub-folders of curr_link is read.
ReadFolderPage ==
    /\ fpc = "run"
    /\ Top.phase = "folders"
    /\ \E sh \in FolderShapes :
          LET page == FolderPageOf(sh) IN
          /\ folderPages' = Extend(folderPages, Top.curr_link :> page)
          /\ owner' = Extend(owner, OwnersOf(Top.curr_link, page))
          /\ links' = links + CountTrue(sh.rels, Len(sh.rels))
                            + (IF sh.hasNext THEN 1 ELSE 0)
    /\ stack' = SetTop([Top EXCEPT !.phase = "entries",
                                   !.folders = Top.curr_link,
                                   !.i = 1])
    /\ UNCHANGED <<fpc, filePages, nodeVars, wikiVars, renderVars, cliVars>>

\* Lines 302-305: the recursive call for entry i of the folder page.
EnterSubfolder ==
    /\ fpc = "run"
    /\ Top.phase = "entries"
    /\ ~FolderLoopOver(Top)
    /\ stack' = Append(stack, Frame(folderPages[Top.folders].entries[Top.i]))
    /\ UNCHANGED <<fpc, links, owner, folderPages, filePages, nodeVars,
                   wikiVars, renderVars, cliVars>>

\* Lines 311-341: one pass of the file loop.  After the last file page the
\* next page of sub-folders is taken up; after the last page of sub-folders
\* the call returns and the caller appends the result (line 305).
ReadFilePage ==
    /\ fpc = "run"
    /\ IF Top.phase = "entries" THEN FolderLoopOver(Top)
                               ELSE Top.phase = "files"
    /\ \E sh \in FileShapes :
          LET page == FilePageOf(sh)
              found == AppendFiles(Top.files_found,
                                   FileItems(Top.curr_link, page))
              folderNext == folderPages[Top.folders].next
          IN
          /\ filePages' = Extend(filePages, Top.curr_link :> page)
          /\ owner' = IF sh.hasNext
                      THEN Extend(owner, (links + 1) :> owner[Top.curr_link])
                      ELSE owner
          /\ links' = links + (IF sh.hasNext THEN 1 ELSE 0)
          /\ IF ~IsLastFilePage(page.next)
             THEN /\ stack' = SetTop([Top EXCEPT !.phase = "files",
                                                 !.curr_link = page.next,
                                                 !.files_found = found])
                  /\ UNCHANGED fpc
             ELSE IF folderNext # 0
             THEN /\ stack' = SetTop([Top EXCEPT !.phase = "folders",
                                                 !.curr_link = folderNext,
                                                 !.files_found = found])
                  /\ UNCHANGED fpc
             ELSE IF Len(stack) = 1
             THEN /\ stack' = SetTop([Top EXCEPT !.phase = "returned",
                                                 !.curr_link = 0,
                                                 !.files_found = found])
                  /\ fpc' = "done"
             ELSE LET caller == stack[Len(stack) - 1] IN
                  /\ stack' = [SubSeq(stack, 1, Len(stack) - 1)
                                 EXCEPT ![Len(stack) - 1] =
                                     [caller EXCEPT
                                         !.files_found = @ \o found,
                                         !.i = @ + 1]]
                  /\ UNCHANGED fpc
    /\ UNCHANGED <<folderPages, nodeVars, wikiVars, renderVars, cliVars>>

\* urlopen raises for a folder page or a file page.
FileFetchRaises ==
    /\ fpc = "run"
    /\ IF Top.phase = "entries" THEN FolderLoopOver(Top)
                               ELSE Top.phase \in {"folders", "files"}
    /\ fpc' = "raised"
    /\ UNCHANGED <<stack, links, owner, folderPages, filePages, nodeVars,
                   wikiVars, renderVars, cliVars>>

NextFiles ==
    \/ ReadFolderPage
    \/ EnterSubfolder
    \/ ReadFilePage
    \/ FileFetchRaises

\* -------------------------------------------------------------- write_pdf
\* (src/src/osfexport/formatter.py)
\* The ids of the records of a list, in list order.
RecordOrder == <<"x", "y", "a">>

\* The empty string.
EmptyStr == <<>>

\* The keys of the wikis dict of record id, in insertion order.
WikisOf(id) ==
    [k \in 1..(IF id = "x" THEN MaxWikis ELSE IF id = "y" THEN 1 ELSE 0) |-> k]

\* The titles the records of a list can carry: all distinct, two records
\* with the same title, or two titles that differ in a space against a
\* hyphen.
TitleChoices == {"distinct", "same", "spaced"}

RecordTitle(id, titles) ==
    IF titles = "same" /\ id = "y" THEN Title("x")
    ELSE IF titles = "spaced" /\ id = "x" THEN <<"title", " ", "x">>
    ELSE IF titles = "spaced" /\ id = "y" THEN <<"title", "-", "x">>
    ELSE Title(id)

\* A record as get_project_data builds it, reduced to the fields the
\* traversal and the page layout read.
Record(id, kids, titles) ==
    [metadata |-> [title |-> RecordTitle(id, titles), id |-> id,
                   url |-> Url(id)],
     wikis |-> WikisOf(id),
     children |-> kids]

\* The record lists a caller can pass: up to three records with distinct
\* ids.  The children list of a record is any list of ids (unknown ids,
\* repetitions, cycles); it is chosen when explore_project_tree first reads
\* it, and recorded.
RecordLists ==
    {[i \in 1..n |-> Record(RecordOrder[i], <<>>, titles)] :
        n \in 1..Len(RecordOrder), titles \in TitleChoices}

ChildrenChoices(p) ==
    IF p \in known THEN {records[p].children}
    ELSE SeqsUpTo(Ids, MaxChildren)

\* No PDF object (pdf=None).
NoPdf ==
    [parent_title |-> EmptyStr, parent_url |-> EmptyStr, date_printed |-> 0,
     pages |-> <<>>]

\* datetime.now() at the creation of a PDF object, in whole seconds: the
\* second in which the last document was written, or a later one.
Now ==
    LET last == IF outputs = <<>> THEN 0
                ELSE outputs[Len(outputs)].path.timestamp
    IN  {last, last + 1}

\* title.replace(' ', '-')
Hyphenate(title) ==
    [i \in 1..Len(title) |-> IF title[i] = " " THEN "-" ELSE title[i]]

\* Lines 357-367: the path of the document, for a fixed folder and working
\* directory: the title with hyphens for spaces and the timestamp of the
\* PDF object, to the second.
Path(title, date_printed) ==
    [name |-> Hyphenate(title), timestamp |-> date_printed]

\* A page of the document: the node it belongs to, the node whose children
\* loop asked for it (NoProject for the root), the add_page call that opened
\* it and the items written on it.
Page(node, via, start) ==
    [node |-> node, via |-> via, start |-> start, items |-> <<>>]

Item(kind, text) == [kind |-> kind, text |-> text]

\* pdf.add_page() and the write calls (multi_cell, cell, table, write_html).
add_page(pages, node, via, start) == Append(pages, Page(node, via, start))

write(pages, item) ==
    [pages EXCEPT ![Len(pages)].items = Append(@, item)]

RECURSIVE write_all(_, _)
write_all(pages, items) ==
    IF items = <<>> THEN pages
    ELSE write_all(write(pages, Head(items)), Tail(items))

\* project['metadata'].pop('url', ''): the value, and the dict left.
PopUrl(metadata) ==
    IF "url" \in DOMAIN metadata THEN metadata.url ELSE EmptyStr

WithoutUrl_andTitle(metadata) ==
    [k \in DOMAIN metadata \ {"url", "title"} |-> metadata[k]]

WithoutUrl(metadata) == [k \in DOMAIN metadata \ {"url"} |-> metadata[k]]

\* The list after record p was written: its url is popped (line 199) and
\* its children list is the one read at line 339.
Written(p, kids) ==
    [records EXCEPT ![p].metadata = WithoutUrl(@), ![p].children = kids]

\* Lines 174-291 of write_project_body: the header, then the metadata,
\* contributors and files sections.
HeaderItems(doc, project) ==
    LET title == project.metadata.title
        url == PopUrl(project.metadata)
    IN  (IF doc.parent_title # EmptyStr
         THEN <<Item("parent_title", doc.parent_title)>> ELSE <<>>)
        \o (IF doc.parent_url # EmptyStr
            THEN <<Item("Main Project URL:", doc.parent_url)>> ELSE <<>>)
        \o (IF doc.parent_title # title
            THEN <<Item("title", title)>> ELSE <<>>)
        \o (IF url # EmptyStr /\ doc.parent_url # url
            THEN <<Item("Component URL:", url)>> ELSE <<>>)
        \o <<Item("1. Project Metadata", DOMAIN WithoutUrl(project.metadata)),
             Item("2. Contributors", project.metadata.id),
             Item("3. Files in Main Project", project.metadata.id)>>

\* Lines 298-305: the loop over the wikis from the i-th (0-based) on.
RECURSIVE WriteWikis(_, _, _, _)
WriteWikis(pages, project, via, i) ==
    IF i >= Len(project.wikis) THEN pages
    ELSE LET written == write(pages, Item("wiki", project.wikis[i + 1]))
         IN  WriteWikis(IF i < Len(project.wikis) - 1
                        THEN add_page(written, project.metadata.id, via, "wiki")
                        ELSE written,
                        project, via, i + 1)

\* write_project_body (lines 153-307): the pages of the document after the
\* body of project is written.
write_project_body(doc, project, via) ==
    LET opened == add_page(doc.pages, project.metadata.id, via, "body")
        upToFiles == write_all(opened, HeaderItems(doc, project))
        heading == write(upToFiles, Item("4. Wiki", project.metadata.id))
    IN  [doc EXCEPT !.pages = WriteWikis(heading, project, via, 0)]

\* Lines 341-343: the first record with the id, as its position in the list
\* (0 when there is none: None).
FindProject(child_id) ==
    IF \E p \in 1..Len(records) : records[p].metadata.id = child_id
    THEN CHOOSE p \in 1..Len(records) :
             /\ records[p].metadata.id = child_id
             /\ \A q \in 1..(p - 1) : records[q].metadata.id # child_id
    ELSE 0

\* Line 344: if child_project:
ChildGuard_absent(child_project) == TRUE

ChildGuard(child_project) == child_project # 0

\* Line 339: children = project['children']
Children_reversed(project) ==
    [k \in 1..Len(project.children) |->
        project.children[Len(project.children) + 1 - k]]

Children(project) == project.children

\* A call frame of explore_project_tree: the record (as its position), the
\* id of the calling record and the position in the children loop.
RenderFrame(p, via) == [project |-> p, via |-> via, i |-> 1]

RenderTop == rstack[Len(rstack)]

\* The child the children loop of the innermost frame is at (0: the loop
\* is over).
CurrentChild ==
    IF rstack = <<>> THEN 0
    ELSE IF RenderTop.i > Len(Children(records[RenderTop.project])) THEN 0
    ELSE RenderTop.i

CurrentChildId == Children(records[RenderTop.project])[RenderTop.i]

\* Line 353 has returned: explore_project_tree is over.
TreeRendered_always == TRUE

TreeRendered == rstack = <<>>

RenderOff ==
    /\ rpc = "off"
    /\ records = <<>>
    /\ known = {}
    /\ calls = 0
    /\ root_idx = 0
    /\ rstack = <<>>
    /\ pdf = NoPdf
    /\ outputs = <<>>

InitRender ==
    /\ rpc = "idle"
    /\ records \in RecordLists
    /\ known = {}
    /\ calls = 0
    /\ root_idx = 0
    /\ rstack = <<>>
    /\ pdf = NoPdf
    /\ outputs = <<>>

\* Lines 351-353 and 329-336: write_pdf is called for a root whose metadata
\* has a url; the PDF object is created and the body of the root written.
WritePdf ==
    /\ rpc = "idle"
    /\ calls < MaxCalls
    /\ \E r \in 0..(Len(records) - 1) :
          LET project == records[r + 1] IN
          /\ "url" \in DOMAIN project.metadata
          /\ root_idx' = r
          /\ \E date_printed \in Now :
                pdf' = write_project_body(
                           [parent_title |-> project.metadata.title,
                            parent_url |-> project.metadata.url,
                            date_printed |-> date_printed,
                            pages |-> <<>>],
                           project, NoProject)
          /\ \E kids \in ChildrenChoices(r + 1) :
                records' = Written(r + 1, kids)
          /\ known' = known \cup {r + 1}
          /\ rstack' = <<RenderFrame(r + 1, NoProject)>>
    /\ rpc' = "render"
    /\ calls' = calls + 1
    /\ UNCHANGED <<outputs, nodeVars, fileVars, wikiVars, cliVars>>

\* Line 332 for a root whose metadata has no url: project['metadata']['url']
\* raises KeyError, which leaves write_pdf.
WritePdfKeyError ==
    /\ rpc = "idle"
    /\ calls < MaxCalls
    /\ \E r \in 0..(Len(records) - 1) :
          /\ "url" \notin DOMAIN records[r + 1].metadata
          /\ root_idx' = r
    /\ rpc' = "keyerror"
    /\ calls' = calls + 1
    /\ UNCHANGED <<records, known, rstack, pdf, outputs, nodeVars, fileVars,
                   wikiVars, cliVars>>

\* Lines 340-347 for a child id that has a record: the recursive call,
\* which writes the body of the child (line 336).
EnterChild ==
    /\ rpc = "render"
    /\ CurrentChild # 0
    /\ LET child_project == FindProject(CurrentChildId)
           via == records[RenderTop.project].metadata.id
       IN  /\ child_project # 0
           /\ ChildGuard(child_project)
           /\ Len(rstack) < MaxDepth
           /\ pdf' = write_project_body(pdf, records[child_project], via)
           /\ \E kids \in ChildrenChoices(child_project) :
                 records' = Written(child_project, kids)
           /\ known' = known \cup {child_project}
           /\ rstack' = Append(rstack, RenderFrame(child_project, via))
    /\ UNCHANGED <<rpc, calls, root_idx, outputs, nodeVars, fileVars,
                   wikiVars, cliVars>>

\* Lines 340-347 for a child id without a record: next() gives None and the
\* guard of line 344 skips the recursive call (without the guard, the call
\* would raise TypeError on None).
SkipChild ==
    /\ rpc = "render"
    /\ CurrentChild # 0
    /\ FindProject(CurrentChildId) = 0
    /\ IF ChildGuard(0)
       THEN /\ rpc' = "raised"
            /\ rstack' = <<>>
            /\ pdf' = NoPdf
       ELSE /\ rstack' = [rstack EXCEPT ![Len(rstack)].i = @ + 1]
            /\ UNCHANGED <<rpc, pdf>>
    /\ UNCHANGED <<records, known, calls, root_idx, outputs, nodeVars,
                   fileVars, wikiVars, cliVars>>

\* The recursion of explore_project_tree exceeds the interpreter's limit
\* (children references that form a cycle): RecursionError leaves write_pdf.
RecursionRaises ==
    /\ rpc = "render"
    /\ CurrentChild # 0
    /\ FindProject(CurrentChildId) # 0
    /\ ChildGuard(FindProject(CurrentChildId))
    /\ Len(rstack) >= MaxDepth
    /\ rpc' = "recursionerror"
    /\ rstack' = <<>>
    /\ pdf' = NoPdf
    /\ UNCHANGED <<records, known, calls, root_idx, outputs, nodeVars,
                   fileVars, wikiVars, cliVars>>

\* Line 349: the children loop of the innermost call is over and the call
\* returns to the loop of its caller.
ReturnChild ==
    /\ rpc = "render"
    /\ rstack # <<>>
    /\ CurrentChild = 0
    /\ rstack' = IF Len(rstack) = 1 THEN <<>>
                 ELSE [SubSeq(rstack, 1, Len(rstack) - 1)
                          EXCEPT ![Len(rstack) - 1].i = @ + 1]
    /\ UNCHANGED <<rpc, records, known, calls, root_idx, pdf, outputs,
                   nodeVars, fileVars, wikiVars, cliVars>>

\* Lines 355-370: the file name is built and pdf.output(path) writes the
\* document; write_pdf returns.
Output ==
    /\ rpc = "render"
    /\ TreeRendered
    /\ outputs' = Append(outputs,
                         [call |-> calls, root |-> root_idx,
                          path |-> Path(records[root_idx + 1].metadata.title,
                                        pdf.date_printed),
                          pages |-> pdf.pages])
    /\ rpc' = "idle"
    /\ rstack' = <<>>
    /\ pdf' = NoPdf
    /\ UNCHANGED <<records, known, calls, root_idx, nodeVars, fileVars,
                   wikiVars, cliVars>>

\* A step of write_project_body raises (fpdf, the markdown or the QR code
\* library) for the root or for a child about to be written, before or
\* after the url was popped; the exception leaves write_pdf.
RenderRaises ==
    /\ \E p \in 1..Len(records), popped \in BOOLEAN :
          /\ IF rpc = "idle"
             THEN /\ calls < MaxCalls
                  /\ "url" \in DOMAIN records[p].metadata
                  /\ calls' = calls + 1
                  /\ root_idx' = p - 1
             ELSE /\ rpc = "render"
                  /\ CurrentChild # 0
                  /\ p = FindProject(CurrentChildId)
                  /\ Len(rstack) < MaxDepth
                  /\ UNCHANGED <<calls, root_idx>>
          /\ records' = IF popped
                        THEN [records EXCEPT ![p].metadata = WithoutUrl(@)]
                        ELSE records
    /\ rpc' = "raised"
    /\ rstack' = <<>>
    /\ pdf' = NoPdf
    /\ UNCHANGED <<known, outputs, nodeVars, fileVars, wikiVars, cliVars>>

NextRender ==
    \/ WritePdf
    \/ WritePdfKeyError
    \/ EnterChild
    \/ SkipChild
    \/ RecursionRaises
    \/ ReturnChild
    \/ Output
    \/ RenderRaises

\* ------------------------------- extract_project_id, the export command
\* A URL is the list of its tokens: the separator "/" or a piece of text
\* without "/".  Adjacent pieces read as one longer piece.
UrlTokens == {"/", "osf.io", "nodes", "x"}

Scheme == <<"https:", "/", "/">>

\* The strings given as url: with or without a scheme, then up to MaxUrlLen
\* tokens; the empty string is one of them.
Urls ==
    {prefix \o body :
        prefix \in {<<>>, Scheme}, body \in SeqsUpTo(UrlTokens, MaxUrlLen)}

\* str.strip("/")
RECURSIVE LStrip(_)
LStrip(s) == IF s # <<>> /\ Head(s) = "/" THEN LStrip(Tail(s)) ELSE s

RECURSIVE RStrip(_)
RStrip(s) ==
    IF s # <<>> /\ s[Len(s)] = "/"
    THEN RStrip(SubSeq(s, 1, Len(s) - 1))
    ELSE s

Strip_leadingOnly(s) == LStrip(s)

Strip(s) == RStrip(LStrip(s))

\* str.split("/"): the list of the pieces between the separators.
RECURSIVE Split(_)
Split(s) ==
    IF "/" \notin Range(s) THEN <<s>>
    ELSE LET i == CHOOSE k \in 1..Len(s) :
                      s[k] = "/" /\ \A j \in 1..(k - 1) : s[j] # "/"
         IN  <<SubSeq(s, 1, i - 1)>> \o Split(SubSeq(s, i + 1, Len(s)))

\* list[-1]
LastOf(list) == list[Len(list)]

\* exporter.py, line 37: url.strip("/").split("/")[-1]
extract_project_id(u) == LastOf(Split(Strip(u)))

\* The positions where ".io/" occurs: a token ending in ".io" followed by
\* the separator.
IoAt(s) == {k \in 1..(Len(s) - 1) : s[k] = "osf.io" /\ s[k + 1] = "/"}

\* str.split(".io/"): the text of "osf.io" before the match stays in the
\* piece to its left.
RECURSIVE SplitIo(_)
SplitIo(s) ==
    IF IoAt(s) = {} THEN <<s>>
    ELSE LET i == CHOOSE k \in IoAt(s) : \A j \in IoAt(s) : k <= j
         IN  <<SubSeq(s, 1, i - 1) \o <<"osf">>>>
             \o SplitIo(SubSeq(s, i + 2, Len(s)))

\* cli.py, lines 26-39: the identifier, or ValueError when any exception
\* is met (here: the IndexError of [1] on a url without ".io/").
cli_extract_project_id(u) ==
    LET pieces == SplitIo(u) IN
    IF Len(pieces) < 2
    THEN [raised |-> TRUE, value |-> <<>>]
    ELSE LET id == Strip(pieces[2])
         IN  [raised |-> FALSE,
              value |-> IF "/" \in Range(id) THEN LastOf(Split(id)) ELSE id]

\* The lines the command prints.
InvalidUrlNotice == "Invalid OSF project URL."

FoundNotice == "Found projects."

GeneratingNotice == "Generating PDF..."

\* The HTTP errors urlopen raises inside get_project_data.
HttpErrors == {"HTTP 401", "HTTP 402", "HTTP 403", "HTTP 404", "HTTP 500"}

CliOff ==
    /\ cpc = "off"
    /\ url_arg = <<>>
    /\ cli_project_id = <<>>
    /\ requests = 0
    /\ echoed = <<>>
    /\ files_written = 0
    /\ exception = NoFetch

\* extract_project_id called on its own.
InitExtract ==
    /\ cpc = "pure"
    /\ url_arg \in Urls
    /\ cli_project_id = <<>>
    /\ requests = 0
    /\ echoed = <<>>
    /\ files_written = 0
    /\ exception = NoFetch

ApplyExtract ==
    /\ cpc = "pure"
    /\ cli_project_id' = extract_project_id(url_arg)
    /\ cpc' = "applied"
    /\ UNCHANGED <<url_arg, requests, echoed, files_written, exception, nodeVars,
                   fileVars, wikiVars, renderVars>>

NextExtract == ApplyExtract

\* pull_projects (cli.py, lines 55-71) is invoked with --url.
InitCli ==
    /\ cpc = "start"
    /\ url_arg \in Urls
    /\ cli_project_id = <<>>
    /\ requests = 0
    /\ echoed = <<>>
    /\ files_written = 0
    /\ exception = NoFetch

\* Lines 60-61: no url given, project_id stays ''.
NoUrlGiven ==
    /\ cpc = "start"
    /\ url_arg = <<>>
    /\ cpc' = "call"
    /\ UNCHANGED <<url_arg, cli_project_id, requests, echoed, files_written, exception,
                   nodeVars, fileVars, wikiVars, renderVars>>

\* Lines 62-63: the identifier is extracted.
ExtractId ==
    /\ cpc = "start"
    /\ url_arg # <<>>
    /\ ~cli_extract_project_id(url_arg).raised
    /\ cli_project_id' = cli_extract_project_id(url_arg).value
    /\ cpc' = "call"
    /\ UNCHANGED <<url_arg, requests, echoed, files_written, exception, nodeVars,
                   fileVars, wikiVars, renderVars>>

\* Lines 64-66: ValueError is caught, its message printed, the command
\* returns.
InvalidUrl ==
    /\ cpc = "start"
    /\ url_arg # <<>>
    /\ cli_extract_project_id(url_arg).raised
    /\ echoed' = Append(echoed, InvalidUrlNotice)
    /\ cpc' = "returned"
    /\ UNCHANGED <<url_arg, cli_project_id, requests, files_written, exception,
                   nodeVars, fileVars, wikiVars, renderVars>>

\* Lines 68-70: get_project_data returns the records.
CallGetProjectData ==
    /\ cpc = "call"
    /\ requests' = requests + 1
    /\ echoed' = echoed \o <<FoundNotice, GeneratingNotice>>
    /\ cpc' = "generate"
    /\ UNCHANGED <<url_arg, cli_project_id, files_written, exception, nodeVars,
                   fileVars, wikiVars, renderVars>>

\* Line 68: get_project_data raises; the call is in no try statement, the
\* exception leaves the command.
GetProjectDataRaises ==
    /\ cpc = "call"
    /\ requests' = requests + 1
    /\ \E e \in HttpErrors : exception' = e
    /\ cpc' = "escaped"
    /\ UNCHANGED <<url_arg, cli_project_id, echoed, files_written, nodeVars, fileVars,
                   wikiVars, renderVars>>

\* Line 71: generate_pdf writes the file.
GeneratePdf ==
    /\ cpc = "generate"
    /\ files_written' = files_written + 1
    /\ cpc' = "returned"
    /\ UNCHANGED <<url_arg, cli_project_id, requests, echoed, exception,
                   nodeVars, fileVars, wikiVars, renderVars>>

\* Line 71: generate_pdf raises before its output call.
GeneratePdfRaises ==
    /\ cpc = "generate"
    /\ exception' = "KeyError"
    /\ cpc' = "escaped"
    /\ UNCHANGED <<url_arg, cli_project_id, requests, echoed, files_written, nodeVars,
                   fileVars, wikiVars, renderVars>>

NextCli ==
    \/ NoUrlGiven
    \/ ExtractId
    \/ InvalidUrl
    \/ CallGetProjectData
    \/ GetProjectDataRaises
    \/ GeneratePdf
    \/ GeneratePdfRaises

\* ------------------------------------------------- claims: materializer
Returned == pc = "done"

RecordIds == [i \in 1..Len(projects) |-> projects[i].id]

\* The ids of the queue as get_project_data seeded it.
SeedIds == IF project_id # NoProject THEN <<project_id>> ELSE listing[1]

\* The first occurrences of a list, in order.
RECURSIVE Dedup(_, _)
Dedup(s, seen) ==
    IF s = <<>> THEN <<>>
    ELSE IF Head(s) \in seen THEN Dedup(Tail(s), seen)
    ELSE <<Head(s)>> \o Dedup(Tail(s), seen \cup {Head(s)})

\* The records without a parent, as positions (1-based) in projects.
RootPositions == {i \in 1..Len(projects) : projects[i].parent = None}

RECURSIVE RootRecordIds(_)
RootRecordIds(i) ==
    IF i > Len(projects) THEN <<>>
    ELSE (IF projects[i].parent = None THEN <<projects[i].id>> ELSE <<>>)
         \o RootRecordIds(i + 1)

\* The queue entry that record i was built from.
SourceOf(i) ==
    nodes[CHOOSE k \in 1..Len(nodes) :
              /\ nodes[k].id = projects[i].id
              /\ \A j \in 1..(k - 1) : nodes[j].id # projects[i].id]

\* The node an href of a parent relationship points at.
HrefTarget(segments) == segments[3]

\* C1: no two records of the list share an id, whatever the seed list and
\* the children responses (repeated seeds, a child returned twice or by
\* several parents).
C1_UniqueIds ==
    \A i, j \in 1..Len(projects) : projects[i].id = projects[j].id => i = j

C1_Witness ==
    /\ Returned
    /\ project_id = NoProject
    /\ \E i, j \in 1..Len(listing[1]) : i < j /\ listing[1][i] = listing[1][j]
    /\ \E i, j \in 1..Len(projects) :
          /\ i < j
          /\ \E c \in Ids : /\ c \in Range(projects[i].children)
                            /\ c \in Range(projects[j].children)

\* C2: after a run, the number of root indexes equals the number of records
\* without a parent, and every root index is a position of the record list
\* whose record has no parent.
C2_RootIndexesPointAtRoots ==
    Returned =>
        /\ Len(root_nodes) = Cardinality(RootPositions)
        /\ \A k \in 1..Len(root_nodes) :
              /\ root_nodes[k] \in 0..(Len(projects) - 1)
              /\ projects[root_nodes[k] + 1].parent = None

\* C3: when a run returns, every id in a record's children list is the id
\* of a record of the list.
C3_ChildrenMaterialized ==
    Returned =>
        \A i \in 1..Len(projects) :
            \A c \in Range(projects[i].children) : c \in Range(RecordIds)

C3_Witness ==
    /\ Returned
    /\ \E i, j \in 1..Len(projects) :
          /\ i < j
          /\ projects[j].id \in Range(projects[i].children)
          /\ projects[i].id \in Range(projects[j].children)

\* C4: for a record B with a parent link to node A, either A is in the list
\* and B is among A's children, or A is not in the list and B.parent is the
\* snapshot (A's title, A's url).
C4_ParentConsistent ==
    Returned =>
        \A b \in 1..Len(projects) :
            SourceOf(b).parent # None =>
                LET A == HrefTarget(SourceOf(b).parent) IN
                \/ \E a \in 1..Len(projects) :
                      /\ projects[a].id = A
                      /\ projects[b].id \in Range(projects[a].children)
                \/ /\ A \notin Range(RecordIds)
                   /\ projects[b].parent = <<"tuple", Title(A), Url(A)>>

\* C5: the records are in breadth-first discovery order (the first
\* occurrences of the seeds followed by the children responses of the
\* records, in record order), and the root index list is strictly
\* increasing and lists the roots in discovery order.
C5_BreadthFirstOrder ==
    Returned =>
        /\ RecordIds =
              Dedup(SeedIds \o Concat([i \in 1..Len(projects) |->
                                          projects[i].children]), {})
        /\ \A k \in 1..(Len(root_nodes) - 1) : root_nodes[k] < root_nodes[k + 1]
        /\ [k \in 1..Len(root_nodes) |-> nodes[root_nodes[k] + 1].id]
              = RootRecordIds(1)

C5_Witness ==
    /\ Returned
    /\ Len(projects) = 3
    /\ Len(root_nodes) = 2
    /\ Len(projects[1].children) = 2
    /\ Len(nodes) = MaxQueue

\* C6: with no project id, every node of the root-node listing is
\* materialized however many pages the listing has; the seeds are the
\* concatenation of the pages.
C6_AllListingPagesSeeded ==
    (Returned /\ project_id = NoProject) =>
        /\ Len(nodes) >= Len(Concat(listing))
        /\ [i \in 1..Len(Concat(listing)) |-> nodes[i].id] = Concat(listing)
        /\ Range(Concat(listing)) \subseteq Range(RecordIds)

\* C7: a run for a single node yields exactly one root index, the position
\* of the requested node, also when that node has a parent link.
C7_SingleNodeIsRoot ==
    (Returned /\ project_id # NoProject) =>
        /\ Len(root_nodes) = 1
        /\ root_nodes[1] \in 0..(Len(projects) - 1)
        /\ projects[root_nodes[1] + 1].id = project_id

\* C12: a node that lacks the link of an optional relation is materialized
\* with the empty value in that field (and the fetched data in the others);
\* a node that lacks the link of subjects is never materialized: a KeyError
\* for subjects leaves get_project_data.
C12_MissingRelationLinks ==
    /\ \A i \in 1..Len(projects) :
          LET project == SourceOf(i) IN
          /\ "subjects" \notin project.absent
          /\ \A k \in RelationKeySet :
                projects[i].relations[k] =
                    IF k \in project.absent THEN EmptyValue(k)
                    ELSE FetchedValue(k, projects[i].id)
    /\ Returned => \A k \in 1..Len(nodes) : nodes[k].id \in Range(RecordIds)
    /\ pc = "keyerror" =>
          /\ failed.exc = "KeyError"
          /\ failed.at = "subjects"
          /\ "subjects" \in failed.project.absent
          /\ projects = <<>>

C12_Witness ==
    /\ Returned
    /\ Len(projects) >= 2
    /\ SourceOf(1).absent = {"license", "contributors"}
    /\ projects[1].relations["contributors"] = <<"list">>
    /\ projects[1].relations["license"] = <<"str", "">>

C14_InstitutionErrorTolerated ==
    (failed.exc = "HTTPError" /\ failed.at = "affiliated_institutions")
        => pc \in {"loop", "done"}

\* The loop of get_project_data is at a queue entry whose id was already
\* materialized.
DuplicateEntry ==
    /\ pc = "loop"
    /\ idx < Len(nodes)
    /\ nodes[idx + 1].id \in added_node_ids

\* C24: the fetch cycle runs at most once per node id.  A step taken at a
\* queue entry whose id was already materialized issues no fetch (nothing
\* is fetched, nothing fails), appends no record and enqueues no children:
\* it only moves on to the next entry.  A record is appended only for an
\* id not materialized before, one record per step.
C24_FetchCycleOncePerId ==
    [][/\ DuplicateEntry =>
             /\ pc' = "loop"
             /\ idx' = idx + 1
             /\ nodes' = nodes
             /\ projects' = projects
             /\ root_nodes' = root_nodes
             /\ added_node_ids' = added_node_ids
             /\ failed' = failed
       /\ Len(projects') > Len(projects) =>
             /\ Len(projects') = Len(projects) + 1
             /\ projects'[Len(projects')].id \notin added_node_ids
             /\ projects'[Len(projects')].id = nodes[idx + 1].id]_vars

C24_Witness ==
    /\ Returned
    /\ RecordIds = <<"x", "y">>
    /\ Len(nodes) = 4
    /\ projects[1].children = <<"y", "y">>
    /\ projects[2].children = <<"x">>

\* get_project_data is over: it returned or an exception left it.
RunOver == pc \in {"done", "raised", "keyerror"}

\* The ids not yet materialized, and the queue entries not yet processed.
Unseen == Cardinality(Ids \ added_node_ids)

Remaining == Len(nodes) - idx

\* C27: a materialization run terminates, whatever the children relation.
\* Every pass of the loop either materializes a not-yet-seen id or leaves
\* the queue as it is and moves on by one entry, so that the pair (ids not
\* yet seen, entries not yet processed) decreases in lexicographic order;
\* the queue grows only in a pass for a not-yet-seen id; and the run is
\* eventually over.
C27_RunTerminates ==
    /\ [][pc = "loop" =>
            /\ pc' = "loop" =>
                  \/ Unseen' < Unseen
                  \/ Unseen' = Unseen /\ Remaining' < Remaining
            /\ Len(nodes') > Len(nodes) => Unseen' < Unseen]_vars
    /\ [](pc = "loop" => Remaining >= 0)
    /\ <>RunOver

C27_Witness ==
    /\ Returned
    /\ RecordIds = <<"x", "y">>
    /\ projects[1].children = <<"y", "x">>
    /\ projects[2].children = <<"x", "y">>

\* ----------------------------------------------- claims: paginated reads
FilesReturned == fpc = "done"

\* The list explore_file_tree returned.
Result == stack[1].files_found

WikisReturned == wpc = "done"

\* Every next cursor of a page that was read led to a page that was read.
CursorsFollowed(pages) ==
    \A l \in DOMAIN pages : pages[l].next # 0 => pages[l].next \in DOMAIN pages

\* The items of the file pages from link l on, in page order.
RECURSIVE FileChain(_)
FileChain(l) ==
    FileItems(l, filePages[l])
        \o (IF filePages[l].next = 0 THEN <<>> ELSE FileChain(filePages[l].next))

\* The index entries of the wiki pages from link l on, in page order.
RECURSIVE WikiChain(_)
WikiChain(l) ==
    [k \in 1..Len(wikiPages[l].names) |->
        [name |-> wikiPages[l].names[k], content |-> WikiDownload(l, k)]]
        \o (IF wikiPages[l].next = 0 THEN <<>> ELSE WikiChain(wikiPages[l].next))

\* A list of (name, content) entries as a mapping: one entry per name, in
\* the order of first occurrence, with the content of the last occurrence.
LastWins(entries) ==
    LET names == Dedup([k \in 1..Len(entries) |-> entries[k].name], {})
        last(n) == CHOOSE k \in 1..Len(entries) :
                      /\ entries[k].name = n
                      /\ \A j \in (k + 1)..Len(entries) : entries[j].name # n
    IN  [p \in 1..Len(names) |->
            [name |-> names[p], content |-> entries[last(names[p])].content]]

IsContiguousIn(part, whole) ==
    \E off \in 0..(Len(whole) - Len(part)) :
        SubSeq(whole, off + 1, off + Len(part)) = part

\* C8: a paginated read over N pages yields the concatenation of the items
\* of all N pages, in page order and within-page order, nothing lost or
\* repeated: the file pages of each folder link appear, concatenated, in
\* the result of explore_file_tree, and explore_wikis returns the mapping
\* of the concatenated index pages.
C8_PagesConcatenated ==
    /\ FilesReturned =>
          IF ~CursorsFollowed(filePages) THEN FALSE
          ELSE /\ \A l \in DOMAIN folderPages :
                      IsContiguousIn(FileChain(l), Result)
               /\ \A p, q \in 1..Len(Result) : Result[p] = Result[q] => p = q
               /\ \A l \in DOMAIN filePages :
                      Range(FileItems(l, filePages[l])) \subseteq Range(Result)
    /\ WikisReturned =>
          IF ~CursorsFollowed(wikiPages) THEN FALSE
          ELSE wiki_content = LastWins(WikiChain(1))

C8_Witness ==
    /\ FilesReturned
    /\ \E l1, l2, l3 \in DOMAIN filePages :
          /\ filePages[l1].next = l2
          /\ filePages[l2].next = l3
          /\ filePages[l3].next = 0
          /\ filePages[l1].count = MaxFiles
          /\ filePages[l2].count > 0
          /\ filePages[l3].count > 0

\* C9: in every paginated read (sub-folder pages, file pages, wiki index
\* pages) a page without its collection key counts as a page without
\* items: no error is raised and the read continues with the next cursor
\* of that page.
C9_MissingKeyTolerated ==
    /\ wpc # "keyerror"
    /\ WikisReturned => CursorsFollowed(wikiPages)
    /\ FilesReturned =>
          /\ CursorsFollowed(folderPages)
          /\ CursorsFollowed(filePages)

\* C11: explore_wikis returns exactly one entry per distinct wiki name found
\* on any index page, and the entry of a name holds the content fetched for
\* the last occurrence of the name in page order (last write wins).
C11_LastWriteWins ==
    WikisReturned =>
        LET entries == WikiChain(1) IN
        /\ \A p, q \in 1..Len(wiki_content) :
              wiki_content[p].name = wiki_content[q].name => p = q
        /\ {wiki_content[p].name : p \in 1..Len(wiki_content)}
              = {entries[k].name : k \in 1..Len(entries)}
        /\ \A p \in 1..Len(wiki_content) :
              \A k \in 1..Len(entries) :
                  (/\ entries[k].name = wiki_content[p].name
                   /\ \A j \in (k + 1)..Len(entries) :
                          entries[j].name # entries[k].name)
                  => wiki_content[p].content = entries[k].content

C11_Witness ==
    /\ WikisReturned
    /\ Len(wikiPages) >= 2
    /\ Len(wikiPages[1].names) = 2
    /\ wikiPages[1].names[1] = wikiPages[1].names[2]
    /\ wikiPages[1].names[1] \in Range(wikiPages[2].names)
    /\ Len(wiki_content) = 2

IsStrictPrefix(s, t) == Len(s) < Len(t) /\ SubSeq(t, 1, Len(s)) = s

\* The first link of the folder with path dir.
FolderLink(dir) == dir[Len(dir)]

\* C10 as claimed: for every folder F, every file in a sub-folder of F (at
\* any depth) comes before every file directly in F, also when the
\* sub-folder listing of F has several pages.
C10_SubfolderFilesFirst ==
    FilesReturned =>
        \A p, q \in 1..Len(Result) :
            IsStrictPrefix(Result[q].dir, Result[p].dir) => p < q

\* C10 as amended: every file below a sub-folder that is listed on the
\* first page of the sub-folder listing of F comes before every file
\* directly in F.
C10_FirstPageSubfolderFilesFirst ==
    FilesReturned =>
        \A p, q \in 1..Len(Result) :
            LET F == Result[q].dir
                X == Result[p].dir
            IN  (IF IsStrictPrefix(F, X)
                 THEN X[Len(F) + 1] \in Range(folderPages[FolderLink(F)].entries)
                 ELSE FALSE) => p < q

C10_Witness ==
    /\ FilesReturned
    /\ \E p, q \in 1..Len(Result) :
          /\ p < q
          /\ Result[q].dir = <<1>>
          /\ Len(Result[p].dir) = 3

\* A wiki index page read so far names, as its next cursor, its own link or
\* the link of a page read before it: the upstream repeats a cursor.
CursorRepeats ==
    \E l \in DOMAIN wikiPages : wikiPages[l].next \in 1..l

\* The paginated read is over: it returned or an exception left it.
ReadOver == wpc \in {"done", "keyerror", "raised"}

\* C25: the paginated read of explore_wikis stops exactly when a page's next
\* cursor is null.  When it has returned, the page it stopped at has a null next
\* cursor and the pages read form one chain, each page fetched once; the
\* pass over a page with a null next cursor ends the read, the pass over
\* any other page does not.  A chain that ends in a null cursor is read to
\* its end (the read is eventually over); once a cursor repeats, it stays
\* so and the read never returns.
C25_StopsAtNullCursor ==
    /\ [](WikisReturned =>
            /\ wikis = Len(wikiPages)
            /\ wikiPages[wikis].next = 0
            /\ \A l \in 1..(Len(wikiPages) - 1) : wikiPages[l].next = l + 1)
    /\ [][wpc = "loop" =>
            IF wikiPages[wikis].hasData /\ wikiPages[wikis].next = 0
            THEN wpc' \in {"done", "raised"}
            ELSE wpc' # "done"]_vars
    /\ [](CursorRepeats => ~WikisReturned)
    /\ [][CursorRepeats => CursorRepeats']_vars
    /\ <>(ReadOver \/ CursorRepeats)

C25_Witness ==
    /\ wpc = "loop"
    /\ Len(wikiPages) = 2
    /\ wikiPages[1].next = 2
    /\ wikiPages[2].next = 1
    /\ wikis = 1
    /\ Len(wiki_content) = 2

\* C26: a sub-folder entry without a files relationship contributes no
\* files, raises no error and does not affect its siblings: when
\* explore_file_tree has returned, every entry with a files relationship on
\* every folder page read, listed before or after such an entry, was
\* explored, and the files of its first file page are in the result.
C26_SiblingsExplored ==
    FilesReturned =>
        \A l \in DOMAIN folderPages :
            \A k \in 1..Len(folderPages[l].entries) :
                LET link == folderPages[l].entries[k] IN
                link # 0 =>
                    IF link \in DOMAIN folderPages /\ link \in DOMAIN filePages
                    THEN Range(FileItems(link, filePages[link]))
                            \subseteq Range(Result)
                    ELSE FALSE

\* ------------------------------------------------------ claims: write_pdf
\* The ids of the node content pages of a document, in page order: the
\* pages opened by write_project_body.
BodyNodes(pages) ==
    LET body == SelectSeq(pages, LAMBDA pg : pg.start = "body")
    IN  [k \in 1..Len(body) |-> body[k].node]

\* The pre-order traversal of the tree of records below record p, children
\* in list order, ids without a record left out (unfolded as deep as the
\* recursion can go).
RECURSIVE PreOrder(_, _)
PreOrder(p, depth) ==
    IF depth > MaxDepth THEN <<>>
    ELSE <<records[p].metadata.id>>
         \o Concat([k \in 1..Len(records[p].children) |->
                       LET c == FindProject(records[p].children[k])
                       IN  IF c = 0 THEN <<>> ELSE PreOrder(c, depth + 1)])

\* The texts of the items of a kind on a page.
Shown(page, kind) ==
    {page.items[j].text :
        j \in {i \in 1..Len(page.items) : page.items[i].kind = kind}}

\* The title of the record with an id.
TitleOf(id) == records[FindProject(id)].metadata.title

\* The structure of a document: per page, its node and its sections.
Structure(pages) ==
    [k \in 1..Len(pages) |->
        <<pages[k].node,
          [j \in 1..Len(pages[k].items) |-> pages[k].items[j].kind]>>]

\* The children loop of the innermost call is at an id without a record.
MissingChild ==
    /\ rpc = "render"
    /\ CurrentChild # 0
    /\ FindProject(CurrentChildId) = 0

\* C15: the node content pages of a written document are the pre-order
\* traversal of the tree rooted at records[root_idx]: a node before its
\* descendants, siblings in children order, a sibling's whole subtree
\* before the next sibling.
C15_PreOrderPages ==
    \A o \in 1..Len(outputs) :
        BodyNodes(outputs[o].pages) = PreOrder(outputs[o].root + 1, 1)

C15_Witness ==
    /\ Len(outputs) = 1
    /\ outputs[1].root = 0
    /\ Len(records) = 3
    /\ records[1].children = <<"y", "a">>
    /\ records[2].children = <<"a">>
    /\ BodyNodes(outputs[1].pages) = <<"x", "y", "a", "a">>

\* C16: a child id that matches no record is skipped without error: the
\* step writes no page, raises nothing and moves on to the next child.
C16_MissingChildSkipped ==
    [][MissingChild =>
          /\ rpc' = "render"
          /\ pdf' = pdf
          /\ Len(rstack') = Len(rstack)
          /\ rstack'[Len(rstack)].i = rstack[Len(rstack)].i + 1
          /\ rstack'[Len(rstack)].project = rstack[Len(rstack)].project]_vars

C16_Witness ==
    /\ Len(outputs) = 1
    /\ outputs[1].root = 0
    /\ Len(records) = 2
    /\ records[1].children = <<"a", "y">>
    /\ BodyNodes(outputs[1].pages) = <<"x", "y">>

\* C17: a second write_pdf call with the same records and the same root
\* index succeeds like the first and writes a document of the same
\* structure.
C17_RepeatableRendering ==
    \A o \in 1..Len(outputs) :
        (outputs[o].call < calls /\ outputs[o].root = root_idx) =>
            /\ rpc \notin {"keyerror"}
            /\ rpc = "idle" =>
                  \E o2 \in 1..Len(outputs) :
                      /\ outputs[o2].call = calls
                      /\ Structure(outputs[o2].pages)
                            = Structure(outputs[o].pages)

\* C18: in a written document, the page of every non-root node shows the
\* title and URL of the node's own parent (the node whose children list
\* led to it), and the page of the root shows no reference to a parent.
C18_ParentReference ==
    \A o \in 1..Len(outputs) :
        \A k \in 1..Len(outputs[o].pages) :
            LET page == outputs[o].pages[k] IN
            page.start = "body" =>
                IF page.via = NoProject
                THEN /\ Shown(page, "parent_title") \subseteq {TitleOf(page.node)}
                     /\ Shown(page, "Main Project URL:")
                           \subseteq {Url(page.node)}
                ELSE /\ Shown(page, "parent_title") = {TitleOf(page.via)}
                     /\ Shown(page, "Main Project URL:") = {Url(page.via)}

\* C19: for every rendered node the wiki section starts on a fresh page
\* (its heading is the first thing on its page), and within the section
\* every wiki after the first starts on a fresh page.
C19_WikiSectionOnFreshPage ==
    \A o \in 1..Len(outputs) :
        \A k \in 1..Len(outputs[o].pages) :
            LET items == outputs[o].pages[k].items IN
            \A j \in 1..Len(items) :
                /\ items[j].kind = "4. Wiki" => j = 1
                /\ (items[j].kind = "wiki" /\ items[j].text # 1) => j = 1

\* C20: every write_pdf call that returns has written exactly one document,
\* the complete one, after the tree was rendered; a call that an exception
\* left has written nothing.
C20_SingleOutputAtEnd ==
    /\ \A o1, o2 \in 1..Len(outputs) :
          outputs[o1].call = outputs[o2].call => o1 = o2
    /\ \A o \in 1..Len(outputs) :
          /\ outputs[o].call \in 1..calls
          /\ outputs[o].call = calls => rpc = "idle"
          /\ Len(BodyNodes(outputs[o].pages))
                = Len(PreOrder(outputs[o].root + 1, 1))
    /\ rpc = "idle" => Len(outputs) = calls
    /\ rpc \in {"render", "raised", "keyerror", "recursionerror"} =>
          Len(outputs) = calls - 1

C20_Witness ==
    /\ rpc = "raised"
    /\ calls = 2
    /\ Len(outputs) = 1
    /\ Len(outputs[1].pages) >= 3

\* The positions of the records reachable from the records at the
\* positions S by following children ids, in at most n steps.
RECURSIVE Reach(_, _)
Reach(S, n) ==
    IF n = 0 THEN S
    ELSE Reach(S \cup ({FindProject(c) :
                           c \in UNION {Range(records[p].children) : p \in S}}
                       \ {0}),
               n - 1)

ReachableIds(p) ==
    {records[q].metadata.id : q \in Reach({p}, Len(records))}

\* C28: write_pdf terminates and writes the content page of each record
\* reachable from records[root_idx] exactly once, whatever the children
\* lists: the recursion never runs away, and in a written document no
\* record has two content pages and every reachable record has one.
C28_EachRecordOnce ==
    /\ rpc # "recursionerror"
    /\ \A o \in 1..Len(outputs) :
          LET written == BodyNodes(outputs[o].pages) IN
          /\ \A p, q \in 1..Len(written) : written[p] = written[q] => p = q
          /\ Range(written) = ReachableIds(outputs[o].root + 1)

\* C29: write_pdf calls for different root indexes resolve to different
\* output paths, so that no document overwrites another, also for roots
\* with the same title written within the same second.
C29_DistinctPaths ==
    \A o1, o2 \in 1..Len(outputs) :
        outputs[o1].root # outputs[o2].root =>
            outputs[o1].path # outputs[o2].path

\* The record at position p is the one whose body the step writes: the root
\* of a call that starts, or the child the children loop is at.
RenderedInStep(p) ==
    \/ rpc = "idle" /\ rpc' # "keyerror" /\ root_idx' = p - 1
    \/ /\ rpc = "render"
       /\ CurrentChild # 0
       /\ p = FindProject(CurrentChildId)

\* The step has written the body of the record at position p in full.
BodyWritten(p) ==
    /\ rstack' # <<>>
    /\ Len(rstack') > Len(rstack)
    /\ rstack'[Len(rstack')].project = p

\* The ids of the nodes a document has pages for.
NodesOf(o) == {outputs[o].pages[k].node : k \in 1..Len(outputs[o].pages)}

\* C30: write_pdf changes the records list only by removing metadata.url
\* from the records it renders.  In every step the list keeps its length
\* and each record its wikis, its children once they were read, and every
\* metadata field but url; the metadata of a record changes only in the
\* step that renders it, which removes the url; and a record that no
\* earlier rendering touched is written with its own url and title, as in
\* a first rendering.
C30_OnlyUrlRemoved ==
    [][/\ Len(records') = Len(records)
       /\ \A p \in 1..Len(records) :
             /\ records'[p].wikis = records[p].wikis
             /\ records'[p].children # records[p].children =>
                   p \notin known /\ p \in known'
             /\ DOMAIN records'[p].metadata \subseteq DOMAIN records[p].metadata
             /\ DOMAIN records[p].metadata \ {"url"}
                   \subseteq DOMAIN records'[p].metadata
             /\ \A k \in DOMAIN records'[p].metadata :
                   records'[p].metadata[k] = records[p].metadata[k]
             /\ records'[p].metadata # records[p].metadata =>
                   RenderedInStep(p)
             /\ BodyWritten(p) =>
                   /\ "url" \notin DOMAIN records'[p].metadata
                   /\ "url" \in DOMAIN records[p].metadata =>
                         LET body == pdf'.pages[Len(pdf.pages) + 1].items IN
                         /\ \E k \in 1..Len(body) :
                               body[k].text = records[p].metadata.url
                         /\ \E k \in 1..Len(body) :
                               body[k].text = records[p].metadata.title]_vars

C30_Witness ==
    /\ Len(outputs) = 2
    /\ NodesOf(1) = {"x", "y"}
    /\ NodesOf(2) = {"a"}
    /\ \E k \in 1..Len(outputs[2].pages[1].items) :
          outputs[2].pages[1].items[k] = Item("Main Project URL:", Url("a"))
    /\ \A p \in 1..Len(records) :
          DOMAIN records[p].metadata = {"title", "id"}

\* ------------------------------------------- claims: the export command
\* A web URL and an API URL of project id.
WebUrl(id) == Scheme \o <<"osf.io", "/", id, "/">>

ApiUrl(id) == Scheme \o <<"osf.io", "/", "nodes", "/", id, "/">>

\* The url names the host and nothing after it, as https://osf.io/ does:
\* there is no project identifier in it.
NoIdentifier(u) ==
    LET body == IF Len(u) >= 3 /\ SubSeq(u, 1, 3) = Scheme
                THEN SubSeq(u, 4, Len(u))
                ELSE u
    IN  Strip(body) = <<"osf.io">>

\* The notice the export command prints for a failed run.
FailureNotice == "Exporting failed as an error occurred:"

\* C21: a url from which no project identifier can be extracted is
\* reported as invalid and the command returns; whenever the invalid-url
\* notice is printed, get_project_data was not called and no file was
\* written.
C21_MalformedUrlBeforeNetwork ==
    /\ (cpc \in {"call", "generate", "returned", "escaped"}
        /\ NoIdentifier(url_arg)) =>
          /\ cpc = "returned"
          /\ InvalidUrlNotice \in Range(echoed)
    /\ InvalidUrlNotice \in Range(echoed) =>
          /\ cpc = "returned"
          /\ requests = 0
          /\ files_written = 0

\* C22: extract_project_id returns, for every string, the last piece
\* between separators once leading and trailing separators are dropped: the
\* result has no separator, it is followed in the url by separators only and
\* preceded by a separator or nothing, and it is empty only for a url made
\* of separators.  Web URL, API URL and bare id give the id, the empty
\* string is accepted.
C22_LastPathSegment ==
    cpc = "applied" =>
        LET id == cli_project_id
            n == Len(url_arg)
        IN  /\ "/" \notin Range(id)
            /\ \E h \in 0..n :
                  /\ h + Len(id) <= n
                  /\ SubSeq(url_arg, h + 1, h + Len(id)) = id
                  /\ \A j \in (h + Len(id) + 1)..n : url_arg[j] = "/"
                  /\ h > 0 => url_arg[h] = "/"
            /\ id = <<>> => \A j \in 1..n : url_arg[j] = "/"
            /\ url_arg = WebUrl("x") => id = <<"x">>
            /\ url_arg = ApiUrl("x") => id = <<"x">>
            /\ url_arg = <<"x">> => id = <<"x">>

C22_Witness ==
    /\ cpc = "applied"
    /\ url_arg = ApiUrl("x")
    /\ cli_project_id = <<"x">>

\* C23: an exception raised by get_project_data or by the rendering does
\* not leave the export command: the command returns after printing the
\* failure notice, and no file was written.
C23_ExceptionsCaught ==
    exception # NoFetch =>
        /\ cpc = "returned"
        /\ FailureNotice \in Range(echoed)
        /\ files_written = 0

\* ------------------------------------------------------- specifications
Init == InitNodes /\ FilesOff /\ WikisOff /\ RenderOff /\ CliOff

Next == NextNodes

Spec == Init /\ [][Next]_vars

\* The for loop of get_project_data (lines 447-600), entered for the nodes
\* of a listing served on one page.  The loop runs on: every pass is
\* eventually completed (or an exception ends the run).
InitLoop ==
    /\ pc = "loop"
    /\ project_id = NoProject
    /\ slash \in BOOLEAN
    /\ \E s \in SeqsUpTo(Ids, MaxSeeds) :
          /\ listing = <<s>>
          /\ nodes = [i \in 1..Len(s) |-> RootDescriptor(s[i])]
    /\ idx = 0
    /\ projects = <<>>
    /\ root_nodes = <<>>
    /\ added_node_ids = {}
    /\ failed = NoFailure
    /\ FilesOff /\ WikisOff /\ RenderOff /\ CliOff

NextLoop ==
    \/ SkipDuplicate
    \/ MaterializeNode
    \/ ReturnProjects
    \/ FetchRaises

SpecLoopFair == InitLoop /\ [][NextLoop]_vars /\ WF_vars(NextLoop)

InitWikisOnly == NodesOff /\ FilesOff /\ InitWikis /\ RenderOff /\ CliOff

SpecWikis == InitWikisOnly /\ [][NextWikis]_vars

\* The while loop of explore_wikis runs on whenever it can: a pass that is
\* not over is eventually completed (or an exception ends the read).
SpecWikisFair == SpecWikis /\ WF_vars(NextWikis)

InitFilesOnly == NodesOff /\ InitFiles /\ WikisOff /\ RenderOff /\ CliOff

SpecFiles == InitFilesOnly /\ [][NextFiles]_vars

InitPaged == InitFilesOnly \/ InitWikisOnly

NextPaged == NextFiles \/ NextWikis

SpecPaged == InitPaged /\ [][NextPaged]_vars


InitRenderOnly == NodesOff /\ FilesOff /\ WikisOff /\ InitRender /\ CliOff

SpecRender == InitRenderOnly /\ [][NextRender]_vars

InitExtractOnly ==
    NodesOff /\ FilesOff /\ WikisOff /\ RenderOff /\ InitExtract

SpecExtract == InitExtractOnly /\ [][NextExtract]_vars

InitCliOnly == NodesOff /\ FilesOff /\ WikisOff /\ RenderOff /\ InitCli

SpecCli == InitCliOnly /\ [][NextCli]_vars

====
